---- MODULE Spec2Model ----
(***************************************************************************)
(* Model of rls/algos/hierarchical/aoc.py: the AOC agent (A2OC).           *)
(*                                                                         *)
(* Numbers are exact integers in fixed units:                              *)
(*   rewards, Q values, dc        : units of 0.01                          *)
(*   beta advantage               : units of 0.01 / AdvScale               *)
(*   KL values, KL thresholds     : units of 0.0001                        *)
(*   kl_coef                      : a reduced fraction <<num, den>>        *)
(* Per-agent vectors (numpy arrays / tensors of length n_agents) are       *)
(* sequences indexed by Agents; an attribute that does not exist yet       *)
(* (hasattr is false) is the empty sequence NoAttr.                        *)
(***************************************************************************)
EXTENDS Integers, Sequences, FiniteSets, TLC

\* ------------------------------------------------------------ model bounds
n_agents == 1
options_num == 3
MaxBuf == 2
MaxEpoch == 4
MaxLearnCalls == 2

\* ------------------------------------------------- constructor parameters
dc == 1
eps_tenths == 1
epoch_default == 4
kl_target == 200
kl_target_earlystop == 4
kl_beta == <<7, 13>>
kl_alpha == <<3, 2>>
kl_coef_init == <<1, 1>>

kl_stop == kl_target * kl_target_earlystop
kl_low == (kl_target * kl_beta[1]) \div 10
kl_high == (kl_target * kl_beta[2]) \div 10

Agents == 1..n_agents
Options == 0..(options_num - 1)
NoAttr == <<>>
HasAttr(x) == x # NoAttr

\* Scale that makes (1 - eps) * max + eps * mean an integer.
AdvScale == 10 * options_num

VARIABLES
    options,          \* self.options
    last_options,     \* self.last_options
    oc_mask,          \* self.oc_mask: [dtype, v]; v[a] = 1 is True
    done_mask,        \* self._done_mask
    value,            \* self._value
    beta_adv,         \* self._beta_adv
    cell_state,       \* self.cell_state
    next_cell_state,  \* self.next_cell_state
    data,             \* self.data: the trajectory buffer, a sequence of records
    q,                \* q of the latest _get_action call, until stored
    beta_sample,      \* beta_dist.sample() of that call, until stored
    done_in,          \* self._done_mask as that choose_action read it
    ret,              \* outcome of the latest choose_action / store_data call
    r_charged,        \* amount the latest store_data took off the caller's r
    train_options,    \* per stored transition, the option train() gathered with
    train_ret,        \* outcome of the latest train() call
    terminal_mask,    \* self.terminal_mask
    coef_used,        \* the kl_coef passed to every train() of the current learn
    epoch,            \* self.epoch
    kl_coef,          \* self.kl_coef
    pc,               \* position inside learn._train
    i,                \* loop index of learn._train
    kl,               \* kl returned by the latest train() call
    early_step,       \* early_step of learn._train
    kl_trace,         \* the kl of every train() call of the current learn call
    summaries,        \* summaries returned by the latest learn._train
    learn_calls       \* number of learn calls started

actVars == <<options, last_options, oc_mask, done_mask, value, beta_adv,
             cell_state, next_cell_state, data, q, beta_sample, done_in,
             ret, r_charged>>
trainVars == <<epoch, kl_coef, pc, i, kl, early_step, kl_trace, summaries,
               learn_calls, coef_used>>
vars == <<actVars, train_options, train_ret, terminal_mask, trainVars>>

\* ------------------------------------------------------------ input sets
\* Q rows the network can return for one agent: a single best option at
\* every index (the others unequal among themselves), and a tie.
QPeak(k) == [o \in Options |-> IF o = k THEN 5 ELSE IF o < k THEN 1 ELSE 0]
QTie == [o \in Options |-> IF o <= 1 THEN 4 ELSE 2]
QRows == {QPeak(k) : k \in Options} \cup {QTie}
QBatches == [Agents -> QRows]
SampleBatches == [Agents -> {0, 1}]
BoolBatches == [Agents -> BOOLEAN]
Rewards == {0, 100}
RewardBatches == [Agents -> Rewards]
\* store_data's pass-through arguments for one agent: the values differ
\* from field to field, and done takes both values.
PassRows == {[s |-> 1, visual_s |-> 2, a |-> 3, s_ |-> 4, visual_s_ |-> 5,
              done |-> 0],
             [s |-> 4, visual_s |-> 5, a |-> 6, s_ |-> 7, visual_s_ |-> 8,
              done |-> 1]}
PassBatches == [Agents -> PassRows]
\* The environment steps the model draws: the step that ends an episode
\* pays the reward 100.
StoreInputs(x, r) == \A a \in Agents : x[a].done = 1 => r[a] = 100
\* Which of store_data's a, r, done arguments are np.ndarray.
ArgTypes == {[a |-> TRUE, r |-> TRUE, done |-> TRUE],
             [a |-> FALSE, r |-> TRUE, done |-> TRUE],
             [a |-> TRUE, r |-> FALSE, done |-> TRUE],
             [a |-> TRUE, r |-> TRUE, done |-> FALSE]}
AllArrays == [a |-> TRUE, r |-> TRUE, done |-> TRUE]

\* ------------------------------------------------------- pure functions
RECURSIVE SumTo(_, _)
SumTo(row, n) == IF n < 0 THEN 0 ELSE row[n] + SumTo(row, n - 1)
reduce_sum(row) == SumTo(row, options_num - 1)
reduce_max(row) == CHOOSE m \in {row[o] : o \in Options} :
                       \A o \in Options : row[o] <= m
\* tf.argmax: the smallest index holding the maximum.
argmax(row) == CHOOSE o \in Options :
                   /\ row[o] = reduce_max(row)
                   /\ \A o2 \in Options : o2 < o => row[o2] < reduce_max(row)

generate_random_options_inclusive == [Agents -> 0..options_num]
\* np.random.randint(0, options_num, n_agents): the possible draws.
generate_random_options == [Agents -> Options]

\* The network's recurrent state after one more forward pass.
NetCell(cs) == cs + 1

\* q_o of _get_action: reduce_sum(q * one_hot(option)); the one-hot row of
\* an index outside [0, options_num) is all zeros.
GatherQ(qrow, o) == IF o \in Options THEN qrow[o] ELSE 0
BetaAdv_EpsSwapped(qrow, o) ==
    AdvScale * GatherQ(qrow, o)
      - (eps_tenths * options_num * reduce_max(qrow)
         + (10 - eps_tenths) * reduce_sum(qrow))
\* beta_adv of _get_action, times AdvScale:
\* q_o - ((1 - eps) * max q + eps * mean q).
BetaAdv(qrow, o) ==
    AdvScale * GatherQ(qrow, o)
      - ((10 - eps_tenths) * options_num * reduce_max(qrow)
         + eps_tenths * reduce_sum(qrow))
GateOption_Inverted(smp, o, maxo) == IF smp < 1 THEN maxo ELSE o
\* new_options of _get_action: a sample below 1 keeps the option.
GateOption(smp, o, maxo) == IF smp < 1 THEN o ELSE maxo

_get_action(qb, smp, cs, opts) ==
    [q_o         |-> [a \in Agents |-> GatherQ(qb[a], opts[a])],
     beta_adv    |-> [a \in Agents |-> BetaAdv(qb[a], opts[a])],
     new_options |-> [a \in Agents |->
                        GateOption(smp[a], opts[a], argmax(qb[a]))],
     max_options |-> [a \in Agents |-> argmax(qb[a])],
     cell_state  |-> NetCell(cs)]

\* self.use_rnn: the model is of an agent with a recurrent network.
use_rnn == TRUE
\* the options choose_action starts from: lines 110-112
EntryOptions_Fresh(opts, rnd) == [a \in Agents |-> 0]
EntryOptions(opts, rnd) == IF HasAttr(opts) THEN opts ELSE rnd
\* np.full(self.n_agents, True) of reset
DoneMaskSet == [a \in Agents |-> TRUE]
DoneMaskCleared_Kept(dm) == dm
\* np.full(self.n_agents, False) of choose_action
DoneMaskCleared(dm) == [a \in Agents |-> FALSE]
DoneOverride_Ignored(dm, maxo, newo) == newo
DoneOverride_Inverted(dm, maxo, newo) ==
    [a \in Agents |-> IF dm[a] THEN newo[a] ELSE maxo[a]]
\* tf.where(self._done_mask, max_options, new_options)
DoneOverride(dm, maxo, newo) ==
    [a \in Agents |-> IF dm[a] THEN maxo[a] ELSE newo[a]]
\* (new_options == self.options).numpy()
OcMask(newo, oldo) ==
    [dtype |-> "npbool", v |-> [a \in Agents |-> IF newo[a] = oldo[a] THEN 1 ELSE 0]]
\* tf.constant(np.zeros(n_agents), dtype=tf.int32)
OcMaskInit == [dtype |-> "int32", v |-> [a \in Agents |-> 0]]
\* tf.zeros_like(self.oc_mask)
OcMaskReset(m) == [dtype |-> "tfbool", v |-> [a \in Agents |-> 0]]
Charge_Inverted(m) == [a \in Agents |-> m.v[a] * dc]
\* (1 - self.oc_mask) * self.dc
Charge(m) == [a \in Agents |-> (1 - m.v[a]) * dc]
\* the recurrent state store_data writes into the record: self.cell_state
\* as it is before line 162 commits the held next state
CellSnapshot_Committed(cs, ncs) == IF use_rnn THEN ncs ELSE NoAttr
CellSnapshot(cs, ncs) == IF use_rnn THEN cs ELSE NoAttr
\* the data tuple of store_data, by buffer field name
StoredRecord_SwappedObs(x, r, chg, val, badv, lo, o, cs) ==
    [s            |-> [a \in Agents |-> x[a].s_],
     visual_s     |-> [a \in Agents |-> x[a].visual_s],
     a            |-> [a \in Agents |-> x[a].a],
     r            |-> [a \in Agents |-> r[a] - chg[a]],
     s_           |-> [a \in Agents |-> x[a].s],
     visual_s_    |-> [a \in Agents |-> x[a].visual_s_],
     done         |-> [a \in Agents |-> x[a].done],
     value        |-> val,
     beta_adv     |-> badv,
     last_options |-> lo,
     options      |-> o,
     cell_state   |-> cs,
     x_in         |-> x,
     r_in         |-> r]
\* x_in and r_in keep the arguments as they were passed in; r is the
\* caller's array after r -= (1 - self.oc_mask) * self.dc.
StoredRecord(x, r, chg, val, badv, lo, o, cs) ==
    [s            |-> [a \in Agents |-> x[a].s],
     visual_s     |-> [a \in Agents |-> x[a].visual_s],
     a            |-> [a \in Agents |-> x[a].a],
     r            |-> [a \in Agents |-> r[a] - chg[a]],
     s_           |-> [a \in Agents |-> x[a].s_],
     visual_s_    |-> [a \in Agents |-> x[a].visual_s_],
     done         |-> [a \in Agents |-> x[a].done],
     value        |-> val,
     beta_adv     |-> badv,
     last_options |-> lo,
     options      |-> o,
     cell_state   |-> cs,
     x_in         |-> x,
     r_in         |-> r]
AssertsPass_NoDone(t) == t.a /\ t.r
\* the three isinstance assertions of store_data
AssertsPass(t) == t.a /\ t.r /\ t.done

\* ------------------------------------------------------------------ Init
InitAct ==
    /\ options = NoAttr
    /\ last_options = NoAttr
    /\ oc_mask = [dtype |-> "none", v |-> NoAttr]
    /\ done_mask = NoAttr
    /\ value = NoAttr
    /\ beta_adv = NoAttr
    /\ cell_state = 0
    /\ next_cell_state = 0
    /\ data = <<>>
    /\ q = NoAttr
    /\ beta_sample = NoAttr
    /\ done_in = NoAttr
    /\ ret = [op |-> "init", raised |-> "", types |-> AllArrays]
    /\ r_charged = NoAttr
    /\ train_options = <<>>
    /\ train_ret = [called |-> FALSE, raised |-> "", beta_terms |-> <<>>]

InitLearn ==
    /\ kl_coef = kl_coef_init
    /\ pc = "idle"
    /\ i = 0
    /\ kl = 0
    /\ early_step = 0
    /\ kl_trace = <<>>
    /\ summaries = [kl |-> 0, kl_coef |-> kl_coef_init, early_step |-> 0]
    /\ learn_calls = 0
    /\ coef_used = <<>>

Init == InitAct /\ InitLearn /\ epoch = epoch_default /\ terminal_mask = FALSE

\* --------------------------------------------------------------- actions
reset ==
    /\ done_mask' = DoneMaskSet
    /\ UNCHANGED <<options, last_options, oc_mask, value, beta_adv,
                   cell_state, next_cell_state, data, q, beta_sample,
                   done_in, ret, r_charged, train_options, train_ret,
                   terminal_mask, trainVars>>

partial_reset(done) ==
    /\ done_mask' = done
    /\ UNCHANGED <<options, last_options, oc_mask, value, beta_adv,
                   cell_state, next_cell_state, data, q, beta_sample,
                   done_in, ret, r_charged, train_options, train_ret,
                   terminal_mask, trainVars>>

choose_action(qb, smp, rnd) ==
    LET opts0 == EntryOptions(options, rnd)
        oc0 == IF oc_mask.dtype = "none" THEN OcMaskInit ELSE oc_mask
        g == _get_action(qb, smp, cell_state, opts0)
    IN  /\ Len(data) < MaxBuf    \* bound: the rollout ends with a full buffer
        /\ last_options' = opts0
        /\ next_cell_state' = g.cell_state
        /\ q' = qb
        /\ beta_sample' = smp
        /\ done_in' = done_mask
        /\ IF HasAttr(done_mask)
           THEN LET new_options == DoneOverride(done_mask, g.max_options,
                                                g.new_options)
                IN  /\ done_mask' = DoneMaskCleared(done_mask)
                    /\ value' = g.q_o
                    /\ beta_adv' = [a \in Agents |->
                                      g.beta_adv[a] + AdvScale * dc]
                    /\ oc_mask' = OcMask(new_options, opts0)
                    /\ options' = new_options
                    /\ ret' = [op |-> "choose_action", raised |-> "",
                               types |-> AllArrays]
           ELSE \* self._done_mask does not exist: line 118 raises
                /\ options' = opts0
                /\ oc_mask' = oc0
                /\ ret' = [op |-> "choose_action",
                           raised |-> "AttributeError", types |-> AllArrays]
                /\ UNCHANGED <<done_mask, value, beta_adv>>
        /\ UNCHANGED <<cell_state, data, r_charged, train_options, train_ret,
                       terminal_mask, trainVars>>

store_data(t, x, r) ==
    IF ~AssertsPass(t)
    THEN /\ ret' = [op |-> "store_data", raised |-> "AssertionError",
                    types |-> t]
         /\ r_charged' = [a \in Agents |-> 0]
         /\ UNCHANGED <<options, last_options, oc_mask, done_mask, value,
                        beta_adv, cell_state, next_cell_state, data, q,
                        beta_sample, done_in, train_options, train_ret,
                        terminal_mask, trainVars>>
    ELSE IF oc_mask.dtype # "npbool"
    THEN \* 1 - self.oc_mask raises: no attribute, or a bool / int32 tensor
         /\ ret' = [op |-> "store_data",
                    raised |-> IF oc_mask.dtype = "none"
                               THEN "AttributeError" ELSE "TypeError",
                    types |-> t]
         /\ r_charged' = [a \in Agents |-> 0]
         /\ UNCHANGED <<options, last_options, oc_mask, done_mask, value,
                        beta_adv, cell_state, next_cell_state, data, q,
                        beta_sample, done_in, train_options, train_ret,
                        terminal_mask, trainVars>>
    ELSE /\ Len(data) < MaxBuf    \* bound on the buffer length
         /\ r_charged' = Charge(oc_mask)
         /\ data' = Append(data,
                StoredRecord(x, r, Charge(oc_mask), value, beta_adv,
                             last_options, options,
                             CellSnapshot(cell_state, next_cell_state)))
         /\ cell_state' = next_cell_state
         /\ oc_mask' = OcMaskReset(oc_mask)
         /\ ret' = [op |-> "store_data", raised |-> "", types |-> t]
         /\ q' = NoAttr
         /\ beta_sample' = NoAttr
         /\ done_in' = NoAttr
         /\ UNCHANGED <<options, last_options, done_mask, value, beta_adv,
                        next_cell_state, train_options, train_ret,
                        terminal_mask, trainVars>>

\* The option train() gathers pi and value with, for each stored transition.
TrainOption(rec) == rec.options
TrainGather == [k \in 1..Len(data) |-> TrainOption(data[k])]

\* The termination probabilities the network returns at train time, in
\* tenths: a fixed function of the stored observation and the option.
BetaNet(obs, o) == 5 * ((obs + o) % 3)
\* beta_s * beta_advantage of one stored transition: beta gathered at
\* last_options.
BetaTerm(rec) ==
    [a \in Agents |-> BetaNet(rec.s[a], rec.last_options[a]) * rec.beta_adv[a]]
\* What one train() call returns: with terminal_mask set, line 270 reads
\* the name done, which train never binds.
TrainResult ==
    IF terminal_mask
    THEN [called |-> TRUE, raised |-> "NameError", beta_terms |-> <<>>]
    ELSE [called |-> TRUE, raised |-> "",
          beta_terms |-> [k \in 1..Len(data) |-> BetaTerm(data[k])]]

train ==
    /\ Len(data) > 0
    /\ train_options' = TrainGather
    /\ train_ret' = TrainResult
    /\ UNCHANGED <<actVars, terminal_mask, trainVars>>

Next ==
    \/ reset
    \/ \E done \in BoolBatches : partial_reset(done)
    \/ \E qb \in QBatches, smp \in SampleBatches :
         \E rnd \in (IF HasAttr(options) THEN {options}
                     ELSE generate_random_options) :
           choose_action(qb, smp, rnd)
    \/ \E t \in ArgTypes, x \in PassBatches, r \in RewardBatches :
         StoreInputs(x, r) /\ store_data(t, x, r)
    \/ train

Spec == Init /\ [][Next]_vars

\* ------------------------------------------------------ learn and _train
\* KL estimates train() can return: around every threshold of _train.
KLVals == {0, kl_low - 1, kl_low, kl_high, kl_high + 1, kl_stop, kl_stop + 1}

RECURSIVE GCD(_, _)
GCD(m, n) == IF n = 0 THEN m ELSE GCD(n, m % n)
Frac(n, d) == <<n \div GCD(n, d), d \div GCD(n, d)>>
KlCoefMul_Add(c) == Frac(c[1] + kl_alpha[1] * c[2], kl_alpha[2] * c[2])
\* self.kl_coef *= self.kl_alpha
KlCoefMul(c) == Frac(c[1] * kl_alpha[1], c[2] * kl_alpha[2])
\* self.kl_coef /= self.kl_alpha
KlCoefDiv(c) == Frac(c[1] * kl_alpha[2], c[2] * kl_alpha[1])
EarlyStop_Inclusive(klv) == klv >= kl_stop
\* if kl > self.kl_stop
EarlyStop(klv) == klv > kl_stop
\* the value early_step takes when the loop breaks at index n
EarlyStepAt(n) == n
AdaptKlCoef_Swapped(klv, c) ==
    IF klv > kl_high THEN KlCoefDiv(c)
    ELSE IF klv < kl_low THEN KlCoefMul(c)
    ELSE c
AdaptKlCoef_Inclusive(klv, c) ==
    IF klv >= kl_high THEN KlCoefMul(c)
    ELSE IF klv <= kl_low THEN KlCoefDiv(c)
    ELSE c
\* the if / elif after the epoch loop
AdaptKlCoef(klv, c) ==
    IF klv > kl_high THEN KlCoefMul(c)
    ELSE IF klv < kl_low THEN KlCoefDiv(c)
    ELSE c

\* learn: enters _train, before the first epoch.
learn ==
    /\ pc = "idle"
    /\ learn_calls < MaxLearnCalls
    /\ learn_calls' = learn_calls + 1
    /\ early_step' = 0
    /\ i' = 0
    /\ kl_trace' = <<>>
    /\ pc' = "loop"
    /\ coef_used' = <<>>
    /\ UNCHANGED <<actVars, train_options, train_ret, terminal_mask, epoch,
                   kl_coef, kl, summaries>>

\* One iteration of the epoch loop: a train() call returning klv; the
\* iteration that ends the loop also runs the rest of _train.
train_epoch(klv) ==
    /\ pc = "loop"
    /\ i < epoch
    /\ ~terminal_mask
    /\ train_options' = TrainGather
    /\ train_ret' = TrainResult
    /\ coef_used' = Append(coef_used, kl_coef)
    /\ kl' = klv
    /\ kl_trace' = Append(kl_trace, klv)
    /\ LET es == IF EarlyStop(klv) THEN EarlyStepAt(i) ELSE early_step
       IN  /\ early_step' = es
           /\ IF EarlyStop(klv) \/ i + 1 = epoch
              THEN /\ i' = i
                   /\ kl_coef' = AdaptKlCoef(klv, kl_coef)
                   /\ summaries' = [kl |-> klv,
                                    kl_coef |-> AdaptKlCoef(klv, kl_coef),
                                    early_step |-> es]
                   /\ pc' = "idle"
              ELSE /\ i' = i + 1
                   /\ UNCHANGED <<kl_coef, summaries, pc>>
    /\ UNCHANGED <<actVars, terminal_mask, epoch, learn_calls>>

InitT ==
    InitAct /\ InitLearn /\ epoch \in 1..MaxEpoch /\ terminal_mask = FALSE

NextT ==
    \/ learn
    \/ \E klv \in KLVals : train_epoch(klv)

SpecTrain == InitT /\ [][NextT]_vars

\* An agent constructed with terminal_mask=True.
InitMask ==
    InitAct /\ InitLearn /\ epoch = epoch_default /\ terminal_mask = TRUE
SpecMask == InitMask /\ [][Next]_vars

\* Strict alternation of choose_action and store_data, resets in between:
\* oc_mask is the numpy array of choose_action exactly while a transition
\* is chosen and not yet stored.
Pending == oc_mask.dtype = "npbool"
NextAlt ==
    \/ reset
    \/ \E done \in BoolBatches : partial_reset(done)
    \/ /\ ~Pending
       /\ \E qb \in QBatches, smp \in SampleBatches :
            \E rnd \in (IF HasAttr(options) THEN {options}
                        ELSE generate_random_options) :
              choose_action(qb, smp, rnd)
    \/ /\ Pending
       /\ \E x \in PassBatches, r \in RewardBatches :
            StoreInputs(x, r) /\ store_data(AllArrays, x, r)
SpecAlt == Init /\ [][NextAlt]_vars

\* ================================================================ claims
InRange(vec) == \A a \in Agents : vec[a] \in Options
\* o is the first index holding the maximum of row
IsFirstMax(row, o) ==
    \A o2 \in Options : row[o2] <= row[o] /\ (o2 < o => row[o2] < row[o])
Zeros == [a \in Agents |-> 0]
StoredOk == ret.op = "store_data" /\ ret.raised = ""

\* C1: every held option, every held last option and every last_options /
\* options value of a transition record is an integer in [0, options_num).
C1_OptionsInRange ==
    /\ HasAttr(options) => InRange(options)
    /\ HasAttr(last_options) => InRange(last_options)
    /\ \A k \in DOMAIN data :
         InRange(data[k].last_options) /\ InRange(data[k].options)
C1_Witness ==
    \E k \in DOMAIN data : \E a \in Agents :
        data[k].last_options[a] = 0 /\ data[k].options[a] = options_num - 1

\* C2: an agent whose done_mask was true when choose_action was called holds
\* argmax_o Q(s,o) afterwards, whatever the termination sample and whatever
\* option it held before.
C2_DoneGetsMaxOption ==
    HasAttr(done_in) =>
        \A a \in Agents : done_in[a] => IsFirstMax(q[a], options[a])
C2_Witness ==
    /\ HasAttr(done_in)
    /\ \E a \in Agents :
         done_in[a] /\ beta_sample[a] = 0 /\ options[a] # last_options[a]

\* C3: the reward of a transition record is the raw reward minus dc when the
\* agent's option after choose_action differs from its option before, and
\* the raw reward otherwise.
C3_RewardCharged ==
    \A k \in DOMAIN data : \A a \in Agents :
        data[k].r[a] = data[k].r_in[a]
            - (IF data[k].options[a] # data[k].last_options[a] THEN dc ELSE 0)
C3_Witness ==
    \E k \in DOMAIN data : \E a \in Agents :
        /\ data[k].options[a] # data[k].last_options[a]
        /\ data[k].r_in[a] = 100
        /\ data[k].r[a] = 100 - dc

\* C4: for every stored transition, the option train() gathers the
\* distribution parameters and the value with is the transition's acting
\* option (the option _get_action sampled the action under, which is the
\* record's last_options).
C4_TrainUsesActingOption ==
    \A k \in DOMAIN train_options : \A a \in Agents :
        train_options[k][a] = data[k].last_options[a]

\* C5: a finished _train call made exactly k+1 train() calls and reports
\* early_step = k when the first KL above kl_stop came at index k; it made
\* exactly epoch calls and reports early_step = 0 when no KL exceeded kl_stop.
C5_EarlyStop ==
    (pc = "idle" /\ learn_calls > 0) =>
        LET over == {k \in 1..Len(kl_trace) : kl_trace[k] > kl_stop}
        IN  IF over # {}
            THEN /\ \A k \in over : Len(kl_trace) <= k
                 /\ summaries.early_step = Len(kl_trace) - 1
            ELSE /\ Len(kl_trace) = epoch
                 /\ summaries.early_step = 0
C5_Witness ==
    /\ pc = "idle"
    /\ epoch = 4
    /\ Len(kl_trace) = 3
    /\ kl_trace[3] > kl_stop
    /\ summaries.early_step = 2

\* C6: the step that ends the epoch loop multiplies kl_coef by kl_alpha when
\* the last KL is above kl_high, divides it by kl_alpha when the last KL is
\* below kl_low, and leaves it unchanged otherwise, the bounds included.
C6_KlCoefUpdate ==
    [][(pc = "loop" /\ pc' = "idle") =>
          /\ kl' > kl_high =>
               kl_coef'[1] * kl_coef[2] * kl_alpha[2]
                 = kl_coef[1] * kl_alpha[1] * kl_coef'[2]
          /\ kl' < kl_low =>
               kl_coef'[1] * kl_coef[2] * kl_alpha[1]
                 = kl_coef[1] * kl_alpha[2] * kl_coef'[2]
          /\ (kl_low <= kl' /\ kl' <= kl_high) => kl_coef' = kl_coef]_vars
C6_Witness ==
    /\ pc = "idle"
    /\ learn_calls = 2
    /\ kl = kl_high
    /\ kl_coef = <<2, 3>>

\* C7: the beta_adv written to a transition record is
\* Q(s,o) - ((1 - eps) * max Q + eps * mean Q) + dc for the option o the
\* agent held when choose_action was entered (all times AdvScale).
C7_BetaAdvRecorded ==
    [][Len(data') = Len(data) + 1 =>
          \A a \in Agents :
              data'[Len(data')].beta_adv[a] =
                  AdvScale * q[a][last_options[a]]
                    - ((10 - eps_tenths) * options_num * reduce_max(q[a])
                       + eps_tenths * reduce_sum(q[a]))
                    + AdvScale * dc]_vars
C7_Witness ==
    \E k \in DOMAIN data : \E a \in Agents :
        /\ data[k].options[a] # data[k].last_options[a]
        /\ data[k].beta_adv[a] < 0

\* C8: a store_data call with an action, reward or done argument that is not
\* array-typed raises before it changes anything: the buffer, the caller's
\* reward, cell_state and oc_mask keep their values.
C8_BadTypeChangesNothing ==
    [][(ret'.op = "store_data"
          /\ ~(ret'.types.a /\ ret'.types.r /\ ret'.types.done)) =>
          /\ ret'.raised = "AssertionError"
          /\ data' = data
          /\ r_charged' = Zeros
          /\ cell_state' = cell_state
          /\ oc_mask' = oc_mask]_vars
C8_Witness ==
    /\ ret.op = "store_data"
    /\ ret.raised = "AssertionError"
    /\ ~ret.types.done
    /\ oc_mask.dtype = "npbool"
    /\ \E a \in Agents : oc_mask.v[a] = 0
    /\ r_charged = Zeros
    /\ Len(data) = 1

\* C9 (as claimed): at the first choose_action after reset or partial_reset,
\* for an agent with done_mask = true every option index is a possible
\* outcome, whatever the Q values.
C9_DoneRedrawnAtRandom ==
    HasAttr(done_mask) =>
        \A a \in Agents : done_mask[a] =>
            \A qb \in QBatches : \A o \in Options :
                \E smp \in SampleBatches : \E rnd \in generate_random_options :
                    ENABLED (choose_action(qb, smp, rnd) /\ options'[a] = o)
\* C9 (amended): at the first choose_action after reset or partial_reset, the
\* only possible outcome for an agent with done_mask = true is
\* argmax_o Q(s,o), whatever is drawn or sampled.
C9_DoneOutcomeIsMaxOption ==
    HasAttr(done_mask) =>
        \A a \in Agents : done_mask[a] =>
            \A qb \in QBatches : \A o \in Options :
                \A smp \in SampleBatches : \A rnd \in generate_random_options :
                    ENABLED (choose_action(qb, smp, rnd) /\ options'[a] = o)
                        => IsFirstMax(qb[a], o)
C9_Witness ==
    /\ HasAttr(done_in)
    /\ Len(data) = 1
    /\ \E a \in Agents :
         /\ done_in[a]
         /\ beta_sample[a] = 0
         /\ last_options[a] = data[1].options[a]
         /\ options[a] # last_options[a]

\* C10: after store_data returns, oc_mask is true (no switch) for every
\* agent, so that 1 - oc_mask is 0 until the next choose_action.
C10_OcMaskResetToNoSwitch ==
    StoredOk => \A a \in Agents : oc_mask.v[a] = 1

AllFalse == [a \in Agents |-> FALSE]
AllTrue == [a \in Agents |-> TRUE]
\* c1 is c0 times kl_alpha
TimesAlpha(c0, c1) ==
    c1[1] * c0[2] * kl_alpha[2] = c0[1] * kl_alpha[1] * c1[2]

\* the step is a choose_action; q and beta_sample hold its inputs afterwards
ChooseActionStep(rnd) ==
    /\ q' \in QBatches
    /\ beta_sample' \in SampleBatches
    /\ choose_action(q', beta_sample', rnd)

\* C11: with terminal_mask set, a train step completes and returns a beta
\* loss in which every transition with done = 1 contributes zero and every
\* other transition contributes beta(last_option) * beta_advantage.
C11_TerminalMaskLoss ==
    (terminal_mask /\ train_ret.called) =>
        /\ train_ret.raised = ""
        /\ DOMAIN train_ret.beta_terms = DOMAIN train_options
        /\ \A k \in DOMAIN train_ret.beta_terms : \A a \in Agents :
               train_ret.beta_terms[k][a] =
                   IF data[k].done[a] = 1 THEN 0
                   ELSE BetaNet(data[k].s[a], data[k].last_options[a])
                          * data[k].beta_adv[a]

\* C12 (as claimed): every field of a stored transition reads back as the
\* value the caller passed in: observation, action, reward, next
\* observation and done.
C12_RoundTrip ==
    \A k \in DOMAIN data : \A a \in Agents :
        /\ data[k].s[a] = data[k].x_in[a].s
        /\ data[k].visual_s[a] = data[k].x_in[a].visual_s
        /\ data[k].a[a] = data[k].x_in[a].a
        /\ data[k].s_[a] = data[k].x_in[a].s_
        /\ data[k].visual_s_[a] = data[k].x_in[a].visual_s_
        /\ data[k].done[a] = data[k].x_in[a].done
        /\ data[k].r[a] = data[k].r_in[a]
\* C12 (amended): observation, action, next observation and done read back
\* as passed in; the reward reads back as the passed reward minus dc for an
\* agent whose option changed in the preceding choose_action, and as the
\* passed reward for the others.
C12_RoundTripButReward ==
    \A k \in DOMAIN data : \A a \in Agents :
        /\ data[k].s[a] = data[k].x_in[a].s
        /\ data[k].visual_s[a] = data[k].x_in[a].visual_s
        /\ data[k].a[a] = data[k].x_in[a].a
        /\ data[k].s_[a] = data[k].x_in[a].s_
        /\ data[k].visual_s_[a] = data[k].x_in[a].visual_s_
        /\ data[k].done[a] = data[k].x_in[a].done
        /\ data[k].options[a] = data[k].last_options[a]
             => data[k].r[a] = data[k].r_in[a]
        /\ data[k].options[a] # data[k].last_options[a]
             => data[k].r[a] + dc = data[k].r_in[a]
C12_Witness ==
    \E k \in DOMAIN data : \E a \in Agents :
        /\ data[k].x_in[a].done = 1
        /\ data[k].done[a] = 1
        /\ data[k].s[a] = 4
        /\ data[k].s_[a] = 7
        /\ data[k].r[a] # data[k].r_in[a]

\* C13: an agent whose done_mask was false when choose_action was called
\* keeps its previous option when the termination sample is 0 and holds
\* argmax_o Q(s,o) when the sample is 1.
C13_GateDecidesOption ==
    HasAttr(done_in) =>
        \A a \in Agents : ~done_in[a] =>
            /\ beta_sample[a] = 0 => options[a] = last_options[a]
            /\ beta_sample[a] = 1 => IsFirstMax(q[a], options[a])
C13_Witness ==
    /\ HasAttr(done_in)
    /\ \E a \in Agents :
         /\ ~done_in[a]
         /\ beta_sample[a] = 1
         /\ options[a] # last_options[a]
         /\ Len(data) = 1

\* C14: reset makes done_mask true for all agents, partial_reset(done) makes
\* it done, every choose_action leaves it false for all agents, and a true
\* entry appears only in a step that changes nothing but done_mask (a
\* reset or partial_reset): the greedy override reaches only the first
\* choose_action after one of them.
C14_DoneMaskLifecycle ==
    [][/\ reset => done_mask' = AllTrue
       /\ \A d \in BoolBatches : partial_reset(d) => done_mask' = d
       /\ \A rnd \in generate_random_options :
            (HasAttr(done_mask) /\ ChooseActionStep(rnd))
                => done_mask' = AllFalse
       /\ (done_mask' # done_mask /\ done_mask' # AllFalse)
            => UNCHANGED <<options, last_options, oc_mask, value, beta_adv,
                           data, q, beta_sample, done_in, ret>>]_vars
C14_Witness ==
    /\ HasAttr(done_in)
    /\ done_mask = AllFalse
    /\ Len(data) = 1
    /\ \E a \in Agents :
         /\ ~done_in[a]
         /\ beta_sample[a] = 0
         /\ ~IsFirstMax(q[a], options[a])

\* C15: choose_action leaves cell_state unchanged and holds the network's
\* next state in next_cell_state; store_data writes the cell_state it finds
\* (the input of the preceding choose_action) into the record and then sets
\* cell_state to the held next state.
C15_CellStateCommit ==
    [][/\ \A rnd \in generate_random_options :
            ChooseActionStep(rnd)
                => /\ cell_state' = cell_state
                   /\ next_cell_state' = cell_state + 1
       /\ (use_rnn /\ Len(data') = Len(data) + 1)
            => /\ data'[Len(data')].cell_state = cell_state
               /\ cell_state' = next_cell_state]_vars
C15_Witness ==
    /\ Len(data) = 2
    /\ data[1].cell_state = 0
    /\ data[2].cell_state = 1
    /\ cell_state = 2
    /\ next_cell_state = 2

\* C16: kl_coef changes only in the step that ends the epoch loop, so every
\* train() of one learn call is passed the same kl_coef; kl_coef is always
\* its initial value times a power of kl_alpha, and positive.
C16_KlCoefOncePerCall ==
    [][/\ kl_coef' # kl_coef => (pc = "loop" /\ pc' = "idle")
       /\ \A j \in DOMAIN coef_used' : coef_used'[j] = coef_used'[1]
       /\ \E n \in 0..learn_calls' :
            \/ kl_coef'[1] * kl_coef_init[2] * (kl_alpha[2] ^ n)
                 = kl_coef_init[1] * (kl_alpha[1] ^ n) * kl_coef'[2]
            \/ kl_coef'[1] * kl_coef_init[2] * (kl_alpha[1] ^ n)
                 = kl_coef_init[1] * (kl_alpha[2] ^ n) * kl_coef'[2]
       /\ kl_coef'[1] > 0 /\ kl_coef'[2] > 0]_vars
C16_Witness ==
    /\ pc = "idle"
    /\ learn_calls = 2
    /\ Len(coef_used) = 3
    /\ coef_used[1] = <<3, 2>>
    /\ coef_used[3] = <<3, 2>>
    /\ kl_coef = <<9, 4>>

\* C17: with kl_target > 0 and kl_target_earlystop >= kl_beta[-1], a learn
\* call whose epoch loop met a KL above kl_stop multiplies kl_coef by
\* kl_alpha in that call.
C17_EarlyStopRaisesKlCoef ==
    [][(/\ kl_target > 0
        /\ 10 * kl_target_earlystop >= kl_beta[2]
        /\ pc = "loop" /\ pc' = "idle"
        /\ \E k \in DOMAIN kl_trace' : kl_trace'[k] > kl_stop)
          => TimesAlpha(kl_coef, kl_coef')]_vars
C17_Witness ==
    /\ pc = "idle"
    /\ learn_calls = 2
    /\ epoch = 4
    /\ Len(kl_trace) = 2
    /\ kl_trace[2] > kl_stop
    /\ summaries.early_step = 1
    /\ kl_coef = <<1, 1>>

\* C18: under strict alternation of choose_action and store_data, with
\* resets in between, every record's last_options is the options field of
\* the record before it, also when the earlier record ended an episode.
C18_LastOptionsChain ==
    \A k \in DOMAIN data : k > 1 =>
        \A a \in Agents : data[k].last_options[a] = data[k - 1].options[a]
C18_Witness ==
    /\ Len(data) = 2
    /\ \E a \in Agents :
         /\ data[1].done[a] = 1
         /\ data[1].options[a] # data[1].last_options[a]
         /\ data[2].last_options[a] = data[1].options[a]
         /\ data[2].options[a] # data[2].last_options[a]
====
